---- MODULE Spec2Model ----
(***************************************************************************)
(* Balance event ingestion: the in-memory operation store                  *)
(* (gateways/balance_event_repository.py) and the alert evaluation engine  *)
(* (domains/balance/_service.py).                                          *)
(*                                                                         *)
(* Amounts are Decimal values with two fractional digits; they are held    *)
(* here as integer numbers of cents, so 100.00 is Money(100) = 10000.      *)
(***************************************************************************)
EXTENDS Integers, Sequences, FiniteSets, TLC

VARIABLES
    storage,         \* _balance_events_storage: dict user_id -> list of operations
    saved,           \* history variable: every operation handed to save_operation
    last_operation,  \* the operation built by the last deposit/withdraw call
    alerts,          \* the list returned by the last deposit/withdraw call
    query,           \* the arguments of the last repository query since the last save
    result,          \* the list returned by that query
    repeated,        \* history variable: the last query repeated the one before it
    solo,            \* history variable: per user, the store of a run in which
                     \* only that user's operations are saved
    calls,           \* per request slot, the deposit/withdraw call in progress,
                     \* step by step
    failed,          \* history variable: the operations saved by a call that
                     \* then raised OperationError or was abandoned
    http,            \* the last HTTP exchange: request body, engine calls made
                     \* by the route, exception raised, response
    ready,           \* the event loop's FIFO queue of steps that are ready to run
    writers          \* threads inside save_operation, statement by statement,
                     \* with the counts of appended and of discarded operations

vars == <<storage, saved, last_operation, alerts, query, result, repeated, solo, calls,
          failed, http, ready, writers>>

----------------------------------------------------------------------------
(* Bounds and input sets *)

\* total number of operations saved in one behaviour
MaxOps == 4

\* total number of operations saved when the repository is driven directly
MaxSaves == 3

\* total number of operations saved when calls are followed step by step
MaxCallOps == 2

\* total number of save_operation calls made by the threads
MaxThreadSaves == 3

\* total number of operations saved through the HTTP entry point
MaxRequests == 3

\* largest num_operations passed to a direct get_last_n_operations query
MaxN == 3

Users == {1, 2}

\* request slots: each holds one deposit/withdraw call at a time
Slots == {1, 2}

\* the slots used when calls are made one after the other
SerialSlots == {1}

\* the rules read the history of the calling user only; the engine is driven
\* for one account, the repository (SpecStore) for both
Callers == {1}

\* timestamps: 1 = 31 - 30 lies on the lower edge of the window of a call at
\* 31 and one second before the window of a call at 32
Times == {1, 31, 32}

Money(units) == units * 100

\* around the 100.00 threshold of rule 1100, summing to 199.99 / 200.00 /
\* 200.01 for rule 123, three distinct values for rule 300, and one deposit
\* that reaches 200.00 on its own
DepositAmounts == {Money(100) - 1, Money(100), Money(100) + 1, Money(200)}

WithdrawAmounts == {Money(100), Money(100) + 1}

\* inputs of the two-user runs: two deposits of 100.00 reach 200.00, one
\* withdrawal of 100.01 is high, three withdrawals make a streak
SharedDepositAmounts == {Money(100) - 1, Money(100), Money(100) + 1}

SharedWithdrawAmounts == {Money(100) + 1}

SharedTimes == {1, 31}

\* the store never looks at the amount
StoreAmounts == {Money(100)}

OpTypes == {"deposit", "withdraw"}

\* op_type defaults to None
None == "None"

TypeFilters == {None, "deposit", "withdraw"}

----------------------------------------------------------------------------
(* Data model *)

BalanceOperationEvent(type, amount, user_id, t) ==
    [type |-> type, amount |-> amount, user_id |-> user_id, t |-> t]

\* placeholder for "no call has returned yet"
NoOperation == [type |-> "none", amount |-> 0, user_id |-> 0, t |-> 0]

NoQuery == [kind |-> "none", user_id |-> 0, arg |-> 0, op_type |-> None]

----------------------------------------------------------------------------
(* Python list primitives *)

\* variant: an element goes before the elements whose key equals its own
RECURSIVE InsertByT_before_equal(_, _)
InsertByT_before_equal(sorted, x) ==
    IF sorted = <<>> THEN <<x>>
    ELSE IF sorted[Len(sorted)].t < x.t THEN Append(sorted, x)
    ELSE Append(InsertByT_before_equal(SubSeq(sorted, 1, Len(sorted) - 1), x),
                sorted[Len(sorted)])

\* list.sort(key=...) is stable: an element goes after every element whose
\* key is less than or equal to its own
RECURSIVE InsertByT(_, _)
InsertByT(sorted, x) ==
    IF sorted = <<>> THEN <<x>>
    ELSE IF sorted[Len(sorted)].t <= x.t THEN Append(sorted, x)
    ELSE Append(InsertByT(SubSeq(sorted, 1, Len(sorted) - 1), x), sorted[Len(sorted)])

RECURSIVE SortByT(_)
SortByT(list) ==
    IF list = <<>> THEN <<>>
    ELSE InsertByT(SortByT(SubSeq(list, 1, Len(list) - 1)), list[Len(list)])

\* list[start:] with Python's index normalisation
SliceFrom(list, start) ==
    LET n == Len(list)
        s0 == IF start < 0 THEN start + n ELSE start
        s1 == IF s0 < 0 THEN 0 ELSE IF s0 > n THEN n ELSE s0
    IN  SubSeq(list, s1 + 1, n)

RECURSIVE Sum(_)
Sum(amounts) ==
    IF amounts = <<>> THEN 0
    ELSE amounts[1] + Sum(SubSeq(amounts, 2, Len(amounts)))

\* dict.get(key, [])
Get(dict, key) == IF key \in DOMAIN dict THEN dict[key] ELSE <<>>

\* dict[key] = value
Put(dict, key, value) ==
    [k \in (DOMAIN dict) \cup {key} |-> IF k = key THEN value ELSE dict[k]]

----------------------------------------------------------------------------
(* BalanceEventRepository *)

\* variant: the user's list is reset on every save
save_operation_overwrite(st, operation) ==
    LET uid == operation.user_id
        st1 == Put(st, uid, <<>>)
        st2 == Put(st1, uid, Append(st1[uid], operation))
    IN  Put(st2, uid, SortByT(st2[uid]))

\* variant: the list is not re-sorted after the append
save_operation_no_sort(st, operation) ==
    LET uid == operation.user_id
        st1 == IF Get(st, uid) = <<>> THEN Put(st, uid, <<>>) ELSE st
    IN  Put(st1, uid, Append(st1[uid], operation))

\* variant: a stored operation with the same t and type is replaced
save_operation_replace(st, operation) ==
    LET uid == operation.user_id
        kept == SelectSeq(Get(st, uid),
                          LAMBDA x: ~(x.t = operation.t /\ x.type = operation.type))
    IN  Put(st, uid, SortByT(Append(kept, operation)))

\* variant: every operation goes to the list of user 1
save_operation_first_user(st, operation) ==
    LET uid == 1
        st1 == IF Get(st, uid) = <<>> THEN Put(st, uid, <<>>) ELSE st
        st2 == Put(st1, uid, Append(st1[uid], operation))
    IN  Put(st2, uid, SortByT(st2[uid]))

save_operation(st, operation) ==
    LET uid == operation.user_id
        st1 == IF Get(st, uid) = <<>> THEN Put(st, uid, <<>>) ELSE st
        st2 == Put(st1, uid, Append(st1[uid], operation))
    IN  Put(st2, uid, SortByT(st2[uid]))

\* variant: the lower bound min_t is exclusive
get_last_operations_by_time_exclusive(st, user_id, min_t, op_type) ==
    IF op_type # None
    THEN SelectSeq(Get(st, user_id), LAMBDA x: x.type = op_type /\ x.t > min_t)
    ELSE SelectSeq(Get(st, user_id), LAMBDA x: x.t > min_t)

\* variant: op_type is ignored
get_last_operations_by_time_unfiltered(st, user_id, min_t, op_type) ==
    SelectSeq(Get(st, user_id), LAMBDA x: x.t >= min_t)

\* variant: the lists of all users are read, not only the list of user_id
get_last_operations_by_time_all_users(st, user_id, min_t, op_type) ==
    LET RECURSIVE Everything(_)
        Everything(us) ==
            IF us = {} THEN <<>>
            ELSE LET u == CHOOSE x \in us : \A y \in us : x <= y
                 IN  st[u] \o Everything(us \ {u})
        all == Everything(DOMAIN st)
    IN  IF op_type # None
        THEN SelectSeq(all, LAMBDA x: x.type = op_type /\ x.t >= min_t)
        ELSE SelectSeq(all, LAMBDA x: x.t >= min_t)

get_last_operations_by_time(st, user_id, min_t, op_type) ==
    IF op_type # None
    THEN SelectSeq(Get(st, user_id), LAMBDA x: x.type = op_type /\ x.t >= min_t)
    ELSE SelectSeq(Get(st, user_id), LAMBDA x: x.t >= min_t)

\* variant: the tail is taken first and filtered afterwards
get_last_n_operations_tail_first(st, user_id, num_operations, op_type) ==
    LET tail == SliceFrom(Get(st, user_id), 0 - num_operations)
    IN  IF op_type # None
        THEN SelectSeq(tail, LAMBDA x: x.type = op_type)
        ELSE tail

\* variant: the head of the filtered list is returned instead of its tail
get_last_n_operations_head(st, user_id, num_operations, op_type) ==
    LET operations ==
            IF op_type # None
            THEN SelectSeq(Get(st, user_id), LAMBDA x: x.type = op_type)
            ELSE Get(st, user_id)
        m == IF num_operations < Len(operations) THEN num_operations ELSE Len(operations)
    IN  SubSeq(operations, 1, m)

\* variant: the lists of all users are read, not only the list of user_id
get_last_n_operations_all_users(st, user_id, num_operations, op_type) ==
    LET RECURSIVE Everything(_)
        Everything(us) ==
            IF us = {} THEN <<>>
            ELSE LET u == CHOOSE x \in us : \A y \in us : x <= y
                 IN  st[u] \o Everything(us \ {u})
        all == SortByT(Everything(DOMAIN st))
        operations ==
            IF op_type # None
            THEN SelectSeq(all, LAMBDA x: x.type = op_type)
            ELSE all
    IN  SliceFrom(operations, 0 - num_operations)

get_last_n_operations(st, user_id, num_operations, op_type) ==
    LET operations ==
            IF op_type # None
            THEN SelectSeq(Get(st, user_id), LAMBDA x: x.type = op_type)
            ELSE Get(st, user_id)
    IN  SliceFrom(operations, 0 - num_operations)

----------------------------------------------------------------------------
(* BalanceService *)

\* variant: an amount of exactly 100 counts as high
high_withdraw_check_inclusive(st, user_id) ==
    LET ops == get_last_n_operations(st, user_id, 1, None)
    IN  IF ops = <<>> THEN FALSE
        ELSE ops[1].type = "withdraw" /\ ops[1].amount >= Money(100)

\* variant: the last withdrawal is read instead of the last operation
high_withdraw_check_last_withdrawal(st, user_id) ==
    LET ops == get_last_n_operations(st, user_id, 1, "withdraw")
    IN  IF ops = <<>> THEN FALSE
        ELSE ops[1].type = "withdraw" /\ ops[1].amount > Money(100)

high_withdraw_check(st, user_id) ==
    LET ops == get_last_n_operations(st, user_id, 1, None)
    IN  IF ops = <<>> THEN FALSE
        ELSE ops[1].type = "withdraw" /\ ops[1].amount > Money(100)

\* variant: the 3 last withdrawals are read instead of the 3 last operations
consecutive_withdraws_check_filtered(st, user_id) ==
    LET ops == get_last_n_operations(st, user_id, 3, "withdraw")
    IN  IF Len(ops) # 3 THEN FALSE
        ELSE SelectSeq(ops, LAMBDA x: x.type = "deposit") = <<>>

consecutive_withdraws_check(st, user_id) ==
    LET ops == get_last_n_operations(st, user_id, 3, None)
    IN  IF Len(ops) # 3 THEN FALSE
        ELSE SelectSeq(ops, LAMBDA x: x.type = "deposit") = <<>>

\* variant: equal consecutive amounts count as growing
consecutive_growing_deposits_check_non_strict(st, user_id) ==
    LET ops == get_last_n_operations(st, user_id, 3, "deposit")
    IN  IF Len(ops) # 3 THEN FALSE
        ELSE ops[1].amount <= ops[2].amount /\ ops[2].amount <= ops[3].amount

\* variant: the 3 last operations are read without the deposit filter
consecutive_growing_deposits_check_unfiltered(st, user_id) ==
    LET ops == get_last_n_operations(st, user_id, 3, None)
    IN  IF Len(ops) # 3 THEN FALSE
        ELSE ops[1].amount < ops[2].amount /\ ops[2].amount < ops[3].amount

consecutive_growing_deposits_check(st, user_id) ==
    LET ops == get_last_n_operations(st, user_id, 3, "deposit")
    IN  IF Len(ops) # 3 THEN FALSE
        ELSE ops[1].amount < ops[2].amount /\ ops[2].amount < ops[3].amount

\* variant: the sum has to exceed 200
high_deposits_over_short_time_check_above(st, user_id, last_t) ==
    LET ops == get_last_operations_by_time(st, user_id, last_t - 30, "deposit")
    IN  IF ops = <<>> THEN FALSE
        ELSE Sum([i \in 1..Len(ops) |-> ops[i].amount]) > Money(200)

high_deposits_over_short_time_check(st, user_id, last_t) ==
    LET ops == get_last_operations_by_time(st, user_id, last_t - 30, "deposit")
    IN  IF ops = <<>> THEN FALSE
        ELSE Sum([i \in 1..Len(ops) |-> ops[i].amount]) >= Money(200)

\* the tasks dict, in insertion order
AlertCodes == <<1100, 30, 300, 123>>

TaskResult(st, op, code) ==
    CASE code = 1100 -> high_withdraw_check(st, op.user_id)
      [] code = 30   -> consecutive_withdraws_check(st, op.user_id)
      [] code = 300  -> consecutive_growing_deposits_check(st, op.user_id)
      [] code = 123  -> high_deposits_over_short_time_check(st, op.user_id, op.t)

\* variant: only the first true code is returned
check_for_alerts_first_only(st, op) ==
    LET codes == SelectSeq(AlertCodes, LAMBDA k: TaskResult(st, op, k))
    IN  IF codes = <<>> THEN <<>> ELSE <<codes[1]>>

check_for_alerts(st, op) ==
    SelectSeq(AlertCodes, LAMBDA k: TaskResult(st, op, k))

\* variant: withdraw raises with the message of deposit
FailureMessage_of_deposit(type) == "The deposit operation failed"

\* deposit and withdraw raise OperationError with their own message
FailureMessage(type) ==
    IF type = "deposit" THEN "The deposit operation failed"
    ELSE "The withdraw operation failed"

\* variant: rule 123 asks for the deposits since last_t
RepositoryCall_since_last_t(op, code) ==
    CASE code = 1100 -> [kind |-> "last_n", user_id |-> op.user_id, arg |-> 1, op_type |-> None]
      [] code = 30   -> [kind |-> "last_n", user_id |-> op.user_id, arg |-> 3, op_type |-> None]
      [] code = 300  -> [kind |-> "last_n", user_id |-> op.user_id, arg |-> 3, op_type |-> "deposit"]
      [] code = 123  -> [kind |-> "by_time", user_id |-> op.user_id, arg |-> op.t, op_type |-> "deposit"]

\* the call each rule makes on the repository (lines 107, 127, 149, 172-174)
\* with the arguments _check_for_alerts passes to the rule (lines 82-86)
RepositoryCall(op, code) ==
    CASE code = 1100 -> [kind |-> "last_n", user_id |-> op.user_id, arg |-> 1, op_type |-> None]
      [] code = 30   -> [kind |-> "last_n", user_id |-> op.user_id, arg |-> 3, op_type |-> None]
      [] code = 300  -> [kind |-> "last_n", user_id |-> op.user_id, arg |-> 3, op_type |-> "deposit"]
      [] code = 123  -> [kind |-> "by_time", user_id |-> op.user_id, arg |-> op.t - 30,
                         op_type |-> "deposit"]

\* a sub-task of the TaskGroup: not created, pending, done with the value of
\* its rule, the history its read observed and the call it made on the
\* repository, raised, or cancelled
NoTask == [status |-> "none", value |-> FALSE, seen |-> <<>>, asked |-> NoQuery]

PendingTask == [status |-> "pending", value |-> FALSE, seen |-> <<>>, asked |-> NoQuery]

Codes == {AlertCodes[i] : i \in 1..Len(AlertCodes)}

\* a request slot in which no call was made yet; snapshot is a history
\* variable, the history of the caller right after the call's own save
NoCall ==
    [pc |-> "idle", op |-> NoOperation, save_calls |-> 0, save_result |-> "none",
     snapshot |-> <<>>,
     tasks |-> [k \in Codes |-> NoTask], returned |-> <<>>, errors |-> <<>>]

----------------------------------------------------------------------------
(* HTTP entry point: requests and responses *)

\* A request body is a JSON object: `present` names the keys it holds, and
\* each value is a JSON string or a JSON number.  The text of an amount is a
\* sequence of characters.
String(v) == [json |-> "string", v |-> v]

Number(v) == [json |-> "number", v |-> v]

Fields == {"type", "amount", "user_id", "t"}

Body(present, type, amount, user_id, t) ==
    [present |-> present, type |-> type, amount |-> amount, user_id |-> user_id, t |-> t]

Digits == <<"0", "1", "2", "3", "4", "5", "6", "7", "8", "9">>

IsDigit(ch) == \E i \in 1..Len(Digits) : Digits[i] = ch

DigitValue(ch) == (CHOOSE i \in 1..Len(Digits) : Digits[i] = ch) - 1

\* the number written by a sequence of digits
RECURSIVE ParseInt(_)
ParseInt(digits) ==
    IF digits = <<>> THEN 0
    ELSE 10 * ParseInt(SubSeq(digits, 1, Len(digits) - 1)) + DigitValue(digits[Len(digits)])

RECURSIVE Power10(_)
Power10(n) == IF n = 0 THEN 1 ELSE 10 * Power10(n - 1)

\* Decimal(text): an optional sign, digits, an optional point followed by
\* digits.  `unscaled` is the number without its point, `places` the number
\* of digits after the point.
Decimal(text) ==
    LET negative == text # <<>> /\ text[1] = "-"
        unsigned == IF negative THEN Tail(text) ELSE text
        points == {i \in 1..Len(unsigned) : unsigned[i] = "."}
        point == IF points = {} THEN Len(unsigned) + 1 ELSE CHOOSE i \in points : TRUE
        whole == SubSeq(unsigned, 1, point - 1)
        fraction == SubSeq(unsigned, point + 1, Len(unsigned))
        wellformed == /\ Cardinality(points) <= 1
                      /\ Len(whole) + Len(fraction) >= 1
                      /\ \A i \in 1..Len(whole) : IsDigit(whole[i])
                      /\ \A i \in 1..Len(fraction) : IsDigit(fraction[i])
    IN  IF wellformed
        THEN [valid |-> TRUE, negative |-> negative,
              unscaled |-> ParseInt(whole \o fraction), places |-> Len(fraction)]
        ELSE [valid |-> FALSE, negative |-> FALSE, unscaled |-> 0, places |-> 0]

\* a Decimal of at most two places as a number of cents
Cents(d) == (IF d.negative THEN 0 - 1 ELSE 1) * d.unscaled * Power10(2 - d.places)

\* BeforeValidator(is_string)
is_string(value) == value.json = "string"

\* the request that failed validation
InvalidRequest == [valid |-> FALSE, type |-> "none", amount |-> 0, user_id |-> 0, t |-> 0]

\* variant: user_id and t are not required to be positive
EventRequest_any_integer(body) ==
    LET d == Decimal(body.amount.v)
    IN  IF /\ body.present = Fields
           /\ body.type.json = "string" /\ body.type.v \in {"deposit", "withdraw"}
           /\ is_string(body.amount)
           /\ d.valid /\ d.places <= 2 /\ ~d.negative /\ d.unscaled > 0
           /\ body.user_id.json = "number"
           /\ body.t.json = "number"
        THEN [valid |-> TRUE, type |-> body.type.v, amount |-> Cents(d),
              user_id |-> body.user_id.v, t |-> body.t.v]
        ELSE InvalidRequest

\* EventRequest: every field is required; type is one of the two literals,
\* amount is a string that reads as a Decimal of at most 2 places greater
\* than 0, user_id and t are integers greater than 0
EventRequest(body) ==
    LET d == Decimal(body.amount.v)
    IN  IF /\ body.present = Fields
           /\ body.type.json = "string" /\ body.type.v \in {"deposit", "withdraw"}
           /\ is_string(body.amount)
           /\ d.valid /\ d.places <= 2 /\ ~d.negative /\ d.unscaled > 0
           /\ body.user_id.json = "number" /\ body.user_id.v > 0
           /\ body.t.json = "number" /\ body.t.v > 0
        THEN [valid |-> TRUE, type |-> body.type.v, amount |-> Cents(d),
              user_id |-> body.user_id.v, t |-> body.t.v]
        ELSE InvalidRequest

\* BalanceOperationEvent validates its fields when it is constructed
ValidOperation(op) ==
    /\ op.type \in OpTypes
    /\ op.amount > 0
    /\ op.user_id > 0
    /\ op.t > 0

Response(status_code, body) == [status_code |-> status_code, body |-> body]

\* variant: alert is true only when more than one code is returned
EventResponse_several(alert_codes, user_id) ==
    [alert |-> Len(alert_codes) > 1, alert_codes |-> alert_codes, user_id |-> user_id]

\* EventResponse with its computed field alert = bool(alert_codes)
EventResponse(alert_codes, user_id) ==
    [alert |-> alert_codes # <<>>, alert_codes |-> alert_codes, user_id |-> user_id]

\* the framework answers a request that fails validation with 422
ValidationErrorResponse == Response(422, [detail |-> "validation error"])

\* the framework turns HTTPException(500, detail) into a response
HTTPException(status_code, detail) == Response(status_code, [detail |-> detail])

NoException == [class |-> "none", message |-> ""]

OperationError(message) == [class |-> "OperationError", message |-> message]

\* any other failure of the engine behind BalanceServiceInterface
RuntimeError(message) == [class |-> "RuntimeError", message |-> message]

\* variant: the message of the exception is sent to the caller
add_exception_middleware_verbose(exception) ==
    Response(500, [error |-> exception.message])

\* the catch-all middleware: except Exception -> JSONResponse
add_exception_middleware(exception) ==
    Response(500, [error |-> "Internal server error"])

NoRequest == Body({}, String(""), String(<<>>), Number(0), Number(0))

NoExchange ==
    [request |-> NoRequest, engine_calls |-> <<>>, raised |-> NoException,
     response |-> Response(0, [detail |-> ""])]

EngineCall(method, user_id, amount, t) ==
    [method |-> method, user_id |-> user_id, amount |-> amount, t |-> t]

----------------------------------------------------------------------------

(* State machine *)

\* threads that call save_operation at the same time
Threads == {1, 2}

\* a thread outside save_operation
NoWriter == [pc |-> "idle", op |-> NoOperation]

\* begun, appended, discarded: history variables counting the calls of
\* save_operation, the appends per user, and the stored operations that
\* were in a list when line 37 replaced it; completed: the operations whose
\* save_operation has returned
NoWriters ==
    [thread |-> [th \in Threads |-> NoWriter],
     begun |-> 0,
     appended |-> [u \in Users |-> 0],
     discarded |-> [u \in Users |-> 0],
     completed |-> {}]

\* variant: an existing list is kept (dict.setdefault)
create_history_if_absent(st, uid) ==
    IF uid \in DOMAIN st THEN st ELSE Put(st, uid, <<>>)

\* _balance_events_storage[operation.user_id] = []
create_history(st, uid) ==
    Put(st, uid, <<>>)

TotalOps(st) ==
    LET RECURSIVE Count(_)
        Count(us) == IF us = {} THEN 0
                     ELSE LET u == CHOOSE x \in us : TRUE
                          IN  Len(st[u]) + Count(us \ {u})
    IN  Count(DOMAIN st)

Init ==
    /\ storage = <<>>
    /\ saved = {}
    /\ last_operation = NoOperation
    /\ alerts = <<>>
    /\ query = NoQuery
    /\ result = <<>>
    /\ repeated = FALSE
    /\ solo = [u \in Users |-> <<>>]
    /\ calls = [c \in Slots |-> NoCall]
    /\ failed = {}
    /\ http = NoExchange
    /\ ready = <<>>
    /\ writers = NoWriters

\* BalanceService.deposit: build the operation, save it, evaluate the rules
deposit(user_id, amount, t) ==
    /\ TotalOps(storage) < MaxOps
    /\ LET op == BalanceOperationEvent("deposit", amount, user_id, t)
           st == save_operation(storage, op)
       IN  /\ storage' = st
           /\ saved' = saved \cup {op}
           /\ last_operation' = op
           /\ alerts' = check_for_alerts(st, op)
           /\ solo' = [solo EXCEPT ![user_id] = save_operation(@, op)]
    /\ UNCHANGED <<query, result, repeated, calls, failed, ready, writers>>

\* BalanceService.withdraw
withdraw(user_id, amount, t) ==
    /\ TotalOps(storage) < MaxOps
    /\ LET op == BalanceOperationEvent("withdraw", amount, user_id, t)
           st == save_operation(storage, op)
       IN  /\ storage' = st
           /\ saved' = saved \cup {op}
           /\ last_operation' = op
           /\ alerts' = check_for_alerts(st, op)
           /\ solo' = [solo EXCEPT ![user_id] = save_operation(@, op)]
    /\ UNCHANGED <<query, result, repeated, calls, failed, ready, writers>>

Next ==
    \/ \E u \in Callers, a \in DepositAmounts, t \in Times :
          deposit(u, a, t) /\ UNCHANGED http
    \/ \E u \in Callers, a \in WithdrawAmounts, t \in Times :
          withdraw(u, a, t) /\ UNCHANGED http

Spec == Init /\ [][Next]_vars

\* The repository driven directly
SaveOperation(op) ==
    /\ TotalOps(storage) < MaxSaves
    /\ storage' = save_operation(storage, op)
    /\ saved' = saved \cup {op}
    /\ solo' = [solo EXCEPT ![op.user_id] = save_operation(@, op)]
    /\ query' = NoQuery
    /\ result' = <<>>
    /\ repeated' = FALSE
    /\ UNCHANGED <<last_operation, alerts, calls, failed, http, ready, writers>>

\* variant: the query removes what it returns from the stored list
GetLastNOperations_consuming(user_id, num_operations, op_type) ==
    LET found == get_last_n_operations(storage, user_id, num_operations, op_type)
        all == Get(storage, user_id)
    IN  /\ query' = [kind |-> "last_n", user_id |-> user_id, arg |-> num_operations, op_type |-> op_type]
        /\ result' = found
        /\ repeated' = (query' = query)
        /\ storage' = IF user_id \in DOMAIN storage
                      THEN Put(storage, user_id, SubSeq(all, 1, Len(all) - Len(found)))
                      ELSE storage
        /\ UNCHANGED <<saved, last_operation, alerts, solo, calls, failed, http, ready, writers>>

\* variant: the query creates the list of a user who has none (setdefault)
GetLastOperationsByTime_creating(user_id, min_t, op_type) ==
    /\ query' = [kind |-> "by_time", user_id |-> user_id, arg |-> min_t, op_type |-> op_type]
    /\ result' = get_last_operations_by_time(storage, user_id, min_t, op_type)
    /\ repeated' = (query' = query)
    /\ storage' = create_history_if_absent(storage, user_id)
    /\ UNCHANGED <<saved, last_operation, alerts, solo, calls, failed, http, ready, writers>>

GetLastOperationsByTime(user_id, min_t, op_type) ==
    /\ query' = [kind |-> "by_time", user_id |-> user_id, arg |-> min_t, op_type |-> op_type]
    /\ result' = get_last_operations_by_time(storage, user_id, min_t, op_type)
    /\ repeated' = (query' = query)
    /\ UNCHANGED <<storage, saved, last_operation, alerts, solo, calls, failed, http, ready, writers>>

GetLastNOperations(user_id, num_operations, op_type) ==
    /\ query' = [kind |-> "last_n", user_id |-> user_id, arg |-> num_operations, op_type |-> op_type]
    /\ result' = get_last_n_operations(storage, user_id, num_operations, op_type)
    /\ repeated' = (query' = query)
    /\ UNCHANGED <<storage, saved, last_operation, alerts, solo, calls, failed, http, ready, writers>>

NextStore ==
    \/ \E ty \in OpTypes, u \in Users, a \in StoreAmounts, t \in Times :
          SaveOperation(BalanceOperationEvent(ty, a, u, t))
    \/ \E u \in Users, t \in Times, f \in TypeFilters : GetLastOperationsByTime(u, t, f)
    \/ \E u \in Users, n \in 0..MaxN, f \in TypeFilters : GetLastNOperations(u, n, f)

SpecStore == Init /\ [][NextStore]_vars

\* the repository call q answered from the store st
Answer(st, q) ==
    IF q.kind = "last_n"
    THEN get_last_n_operations(st, q.user_id, q.arg, q.op_type)
    ELSE get_last_operations_by_time(st, q.user_id, q.arg, q.op_type)

\* one of the four checks called on its own, as the unit tests do: it makes
\* its repository call and answers True or False (alerts holds the code of a
\* check that answered True)
RunCheck(code, user_id, last_t) ==
    LET op == [user_id |-> user_id, t |-> last_t]
    IN  /\ query' = RepositoryCall(op, code)
        /\ result' = Answer(storage, RepositoryCall(op, code))
        /\ alerts' = IF TaskResult(storage, op, code) THEN <<code>> ELSE <<>>
        /\ repeated' = (query' = query)
        /\ UNCHANGED <<storage, saved, last_operation, solo, calls, failed, http, ready, writers>>

\* The repository and the checks driven directly, for users with and
\* without a history
NextReads ==
    \/ \E ty \in OpTypes, u \in Users, a \in StoreAmounts, t \in SharedTimes :
          /\ TotalOps(storage) < MaxCallOps
          /\ SaveOperation(BalanceOperationEvent(ty, a, u, t))
    \/ \E u \in Users, t \in SharedTimes, f \in TypeFilters : GetLastOperationsByTime(u, t, f)
    \/ \E u \in Users, n \in {1, 3}, f \in TypeFilters : GetLastNOperations(u, n, f)
    \/ \E k \in Codes, u \in Users, t \in SharedTimes : RunCheck(k, u, t)

SpecReads == Init /\ [][NextReads]_vars

\* The engine driven for two users, with fewer amounts and timestamps
NextUsers ==
    \/ \E u \in Users, a \in SharedDepositAmounts, t \in SharedTimes :
          deposit(u, a, t) /\ UNCHANGED http
    \/ \E u \in Users, a \in SharedWithdrawAmounts, t \in SharedTimes :
          withdraw(u, a, t) /\ UNCHANGED http

SpecUsers == Init /\ [][NextUsers]_vars

\* A deposit/withdraw call step by step, with a repository that may raise.
\* A slot is free before its first call and after a call returned, raised or
\* was abandoned.
Free(c) == calls[c].pc \in {"idle", "returned", "raised", "abandoned"}

\* variant: the rules are evaluated before the operation is saved
CallSaves_after_reads(c, type, user_id, amount, t) ==
    /\ Free(c)
    /\ TotalOps(storage) < MaxCallOps
    /\ LET op == BalanceOperationEvent(type, amount, user_id, t)
       IN  /\ storage' = save_operation(storage, op)
           /\ saved' = saved \cup {op}
           /\ solo' = [solo EXCEPT ![user_id] = save_operation(@, op)]
           /\ calls' = [calls EXCEPT ![c] =
                  [pc |-> "joining", op |-> op, save_calls |-> 1, save_result |-> "ok",
                   snapshot |-> Get(save_operation(storage, op), user_id),
                   tasks |-> [k \in Codes |->
                                 [status |-> "done",
                                  value |-> TaskResult(storage, op, k),
                                  seen |-> Get(storage, user_id),
                                  asked |-> RepositoryCall(op, k)]],
                   returned |-> <<>>, errors |-> <<>>]]
    /\ UNCHANGED <<last_operation, alerts, query, result, repeated, failed, http, writers>>

\* lines 29-31 up to the suspension in TaskGroup.__aexit__: the operation is
\* built and saved, the four sub-tasks are created
CallSaves(c, type, user_id, amount, t) ==
    /\ Free(c)
    /\ TotalOps(storage) < MaxCallOps
    /\ LET op == BalanceOperationEvent(type, amount, user_id, t)
       IN  /\ storage' = save_operation(storage, op)
           /\ saved' = saved \cup {op}
           /\ solo' = [solo EXCEPT ![user_id] = save_operation(@, op)]
           /\ calls' = [calls EXCEPT ![c] =
                  [pc |-> "joining", op |-> op, save_calls |-> 1, save_result |-> "ok",
                   snapshot |-> Get(save_operation(storage, op), user_id),
                   tasks |-> [k \in Codes |-> PendingTask],
                   returned |-> <<>>, errors |-> <<>>]]
    /\ UNCHANGED <<last_operation, alerts, query, result, repeated, failed, http, writers>>

\* save_operation raises: the except clause turns it into OperationError
CallSaveFails(c, type, user_id, amount, t) ==
    /\ Free(c)
    /\ LET op == BalanceOperationEvent(type, amount, user_id, t)
       IN  calls' = [calls EXCEPT ![c] =
                  [pc |-> "raised", op |-> op, save_calls |-> 1, save_result |-> "raised",
                   snapshot |-> <<>>,
                   tasks |-> [k \in Codes |-> NoTask],
                   returned |-> <<>>, errors |-> <<FailureMessage(type)>>]]
    /\ UNCHANGED <<storage, saved, solo, last_operation, alerts, query, result, repeated, failed, http, writers>>

\* one sub-task issues its read and evaluates its rule
TaskRuns(c, code) ==
    /\ calls[c].pc = "joining"
    /\ calls[c].tasks[code].status = "pending"
    /\ calls' = [calls EXCEPT ![c].tasks[code] =
           [status |-> "done",
            value |-> TaskResult(storage, calls[c].op, code),
            seen |-> Get(storage, calls[c].op.user_id),
            asked |-> RepositoryCall(calls[c].op, code)]]
    /\ UNCHANGED <<storage, saved, solo, last_operation, alerts, query, result, repeated, failed, http, writers>>

\* the read of one sub-task raises
TaskFails(c, code) ==
    /\ calls[c].pc = "joining"
    /\ calls[c].tasks[code].status = "pending"
    /\ calls' = [calls EXCEPT ![c].tasks[code] =
           [status |-> "raised", value |-> FALSE, seen |-> <<>>,
            asked |-> RepositoryCall(calls[c].op, code)]]
    /\ UNCHANGED <<storage, saved, solo, last_operation, alerts, query, result, repeated, failed, http, writers>>

\* after a sub-task raised the TaskGroup cancels the sub-tasks that are still
\* pending; one that was already scheduled may still run (TaskRuns, TaskFails)
TaskCancelled(c, code) ==
    /\ calls[c].pc = "joining"
    /\ calls[c].tasks[code].status = "pending"
    /\ \E k \in Codes : calls[c].tasks[k].status = "raised"
    /\ calls' = [calls EXCEPT ![c].tasks[code] =
           [status |-> "cancelled", value |-> FALSE, seen |-> <<>>, asked |-> NoQuery]]
    /\ UNCHANGED <<storage, saved, solo, last_operation, alerts, query, result, repeated, failed, http, writers>>

\* variant: the results of the sub-tasks that did not raise are returned
CallJoins_partial(c) ==
    /\ calls[c].pc = "joining"
    /\ \A k \in Codes : calls[c].tasks[k].status # "pending"
    /\ calls' = [calls EXCEPT ![c].pc = "returned",
                              ![c].returned =
                                  <<SelectSeq(AlertCodes,
                                              LAMBDA k: calls[c].tasks[k].value)>>]
    /\ UNCHANGED <<storage, saved, solo, last_operation, alerts, query, result, repeated, failed, http, writers>>

\* variant: a call whose evaluation failed takes its operation out of the
\* history again
CallJoins_rollback(c) ==
    /\ calls[c].pc = "joining"
    /\ \A k \in Codes : calls[c].tasks[k].status # "pending"
    /\ IF \E k \in Codes : calls[c].tasks[k].status = "raised"
       THEN /\ calls' = [calls EXCEPT ![c].pc = "raised",
                                      ![c].errors = <<FailureMessage(calls[c].op.type)>>]
            /\ failed' = failed \cup {calls[c].op}
            /\ storage' = Put(storage, calls[c].op.user_id,
                              SelectSeq(Get(storage, calls[c].op.user_id),
                                        LAMBDA x: x # calls[c].op))
       ELSE /\ calls' = [calls EXCEPT ![c].pc = "returned",
                                      ![c].returned =
                                          <<SelectSeq(AlertCodes,
                                                      LAMBDA k: calls[c].tasks[k].value)>>]
            /\ failed' = failed
            /\ storage' = storage
    /\ UNCHANGED <<saved, solo, last_operation, alerts, query, result, repeated, http, writers>>

\* variant: the call returns as soon as one sub-task is done
CallJoins_early(c) ==
    /\ calls[c].pc = "joining"
    /\ \E k \in Codes : calls[c].tasks[k].status = "done"
    /\ calls' = [calls EXCEPT ![c].pc = "returned",
                              ![c].returned =
                                  <<SelectSeq(AlertCodes,
                                              LAMBDA k: calls[c].tasks[k].value)>>]
    /\ UNCHANGED <<storage, saved, solo, last_operation, alerts, query, result, repeated,
                   failed, http, writers>>

\* the TaskGroup is left once no sub-task is pending: with a failed sub-task
\* it raises and the except clause raises OperationError, otherwise line 90
\* returns the codes whose task result is True
CallJoins(c) ==
    /\ calls[c].pc = "joining"
    /\ \A k \in Codes : calls[c].tasks[k].status # "pending"
    /\ IF \E k \in Codes : calls[c].tasks[k].status = "raised"
       THEN /\ calls' = [calls EXCEPT ![c].pc = "raised",
                                      ![c].errors = <<FailureMessage(calls[c].op.type)>>]
            /\ failed' = failed \cup {calls[c].op}
       ELSE /\ calls' = [calls EXCEPT ![c].pc = "returned",
                                      ![c].returned =
                                          <<SelectSeq(AlertCodes,
                                                      LAMBDA k: calls[c].tasks[k].value)>>]
            /\ failed' = failed
    /\ UNCHANGED <<storage, saved, solo, last_operation, alerts, query, result, repeated, http, writers>>

\* the caller gives the call up (a timeout cancels it) while it waits in the
\* TaskGroup: the sub-tasks that did not run are cancelled, CancelledError is
\* not an Exception and passes the except clause, nothing is undone.  With a
\* failed sub-task the TaskGroup raises the failure instead (CallJoins).
CallAbandoned(c) ==
    /\ calls[c].pc = "joining"
    /\ \A k \in Codes : calls[c].tasks[k].status # "raised"
    /\ calls' = [calls EXCEPT
           ![c].pc = "abandoned",
           ![c].tasks = [k \in Codes |->
                            IF calls[c].tasks[k].status = "pending"
                            THEN [status |-> "cancelled", value |-> FALSE, seen |-> <<>>,
                                  asked |-> NoQuery]
                            ELSE calls[c].tasks[k]]]
    /\ failed' = failed \cup {calls[c].op}
    /\ UNCHANGED <<storage, saved, solo, last_operation, alerts, query, result, repeated, http, writers>>

NextCalls ==
    \/ \E c \in SerialSlots, ty \in OpTypes, u \in Callers,
          a \in SharedDepositAmounts, t \in SharedTimes :
          CallSaves(c, ty, u, a, t) /\ UNCHANGED ready
    \/ \E c \in SerialSlots, ty \in OpTypes, u \in Callers,
          a \in SharedDepositAmounts, t \in SharedTimes :
          CallSaveFails(c, ty, u, a, t) /\ UNCHANGED ready
    \/ \E c \in SerialSlots, k \in Codes : TaskRuns(c, k) /\ UNCHANGED ready
    \/ \E c \in SerialSlots, k \in Codes : TaskFails(c, k) /\ UNCHANGED ready
    \/ \E c \in SerialSlots, k \in Codes : TaskCancelled(c, k) /\ UNCHANGED ready
    \/ \E c \in SerialSlots : CallJoins(c) /\ UNCHANGED ready
    \/ \E c \in SerialSlots : CallAbandoned(c) /\ UNCHANGED ready

SpecCalls == Init /\ [][NextCalls]_vars

----------------------------------------------------------------------------
(* The engine called with arguments that BalanceOperationEvent rejects *)

\* user_id, amount, t with one field that is not positive
RejectedArguments ==
    {<<1, 0, 1>>, <<1, 0 - Money(100), 1>>, <<1, Money(100), 0>>, <<0, Money(100), 1>>}

\* line 29 (52) raises pydantic's ValidationError inside the try block: the
\* except clause raises OperationError, save_operation is not reached
CallRejected(c, type, user_id, amount, t) ==
    /\ Free(c)
    /\ LET op == BalanceOperationEvent(type, amount, user_id, t)
       IN  /\ ~ValidOperation(op)
           /\ calls' = [calls EXCEPT ![c] =
                  [pc |-> "raised", op |-> op, save_calls |-> 0, save_result |-> "none",
                   snapshot |-> <<>>,
                   tasks |-> [k \in Codes |-> NoTask],
                   returned |-> <<>>, errors |-> <<FailureMessage(type)>>]]
    /\ UNCHANGED <<storage, saved, solo, last_operation, alerts, query, result, repeated,
                   failed, http, writers>>

NextArguments ==
    \/ \E c \in SerialSlots, ty \in OpTypes, u \in Callers,
          a \in SharedWithdrawAmounts, t \in SharedTimes :
          CallSaves(c, ty, u, a, t) /\ UNCHANGED ready
    \/ \E c \in SerialSlots, ty \in OpTypes, args \in RejectedArguments :
          CallRejected(c, ty, args[1], args[2], args[3]) /\ UNCHANGED ready
    \/ \E c \in SerialSlots, k \in Codes : TaskRuns(c, k) /\ UNCHANGED ready
    \/ \E c \in SerialSlots : CallJoins(c) /\ UNCHANGED ready

SpecArguments == Init /\ [][NextArguments]_vars

----------------------------------------------------------------------------

(* One call at a time whose caller waits for it, with a store that answers *)

NextLive ==
    \/ \E c \in SerialSlots, ty \in OpTypes, u \in Callers,
          a \in SharedWithdrawAmounts, t \in SharedTimes :
          CallSaves(c, ty, u, a, t) /\ UNCHANGED ready
    \/ \E c \in SerialSlots, ty \in OpTypes, u \in Callers,
          a \in SharedWithdrawAmounts, t \in SharedTimes :
          CallSaveFails(c, ty, u, a, t) /\ UNCHANGED ready
    \/ \E c \in SerialSlots, k \in Codes : TaskRuns(c, k) /\ UNCHANGED ready
    \/ \E c \in SerialSlots, k \in Codes : TaskFails(c, k) /\ UNCHANGED ready
    \/ \E c \in SerialSlots, k \in Codes : TaskCancelled(c, k) /\ UNCHANGED ready
    \/ \E c \in SerialSlots : CallJoins(c) /\ UNCHANGED ready

\* every read of the store ends (it answers, raises or is cancelled), and a
\* call whose sub-tasks have all ended is resumed
Fairness ==
    /\ \A c \in SerialSlots, k \in Codes :
          WF_vars((TaskRuns(c, k) \/ TaskFails(c, k) \/ TaskCancelled(c, k))
                  /\ UNCHANGED ready)
    /\ \A c \in SerialSlots : WF_vars(CallJoins(c) /\ UNCHANGED ready)

SpecLive == Init /\ [][NextLive]_vars /\ Fairness

----------------------------------------------------------------------------

(* save_operation called from several threads, statement by statement *)

\* line 36: not _balance_events_storage.get(operation.user_id)
SaveLooksUp(th, op) ==
    /\ writers.thread[th].pc = "idle"
    /\ writers.begun < MaxThreadSaves
    /\ writers' = [writers EXCEPT
           !.thread[th] = [pc |-> IF Get(storage, op.user_id) = <<>> THEN "create"
                                  ELSE "append",
                           op |-> op],
           !.begun = @ + 1]
    /\ saved' = saved \cup {op}
    /\ UNCHANGED <<storage, last_operation, alerts, query, result, repeated, solo,
                   calls, failed, http, ready>>

\* line 37: the list of the user is set to a new empty list
SaveCreates(th) ==
    /\ writers.thread[th].pc = "create"
    /\ LET uid == writers.thread[th].op.user_id
       IN  /\ storage' = create_history(storage, uid)
           /\ writers' = [writers EXCEPT
                  !.thread[th].pc = "append",
                  !.discarded[uid] = @ + Len(Get(storage, uid))]
    /\ UNCHANGED <<saved, last_operation, alerts, query, result, repeated, solo,
                   calls, failed, http, ready>>

\* line 39: the operation is appended to the list of the user
SaveAppends(th) ==
    /\ writers.thread[th].pc = "append"
    /\ LET op == writers.thread[th].op
           uid == op.user_id
       IN  /\ storage' = Put(storage, uid, Append(storage[uid], op))
           /\ writers' = [writers EXCEPT
                  !.thread[th].pc = "sort",
                  !.appended[uid] = @ + 1]
    /\ UNCHANGED <<saved, last_operation, alerts, query, result, repeated, solo,
                   calls, failed, http, ready>>

\* line 40: the list is sorted and save_operation returns
SaveSorts(th) ==
    /\ writers.thread[th].pc = "sort"
    /\ LET op == writers.thread[th].op
           uid == op.user_id
       IN  /\ storage' = Put(storage, uid, SortByT(storage[uid]))
           /\ writers' = [writers EXCEPT
                  !.thread[th] = NoWriter,
                  !.completed = @ \cup {op}]
    /\ UNCHANGED <<saved, last_operation, alerts, query, result, repeated, solo,
                   calls, failed, http, ready>>

NextThreads ==
    \/ \E th \in Threads, ty \in OpTypes, u \in Users, a \in StoreAmounts, t \in SharedTimes :
          SaveLooksUp(th, BalanceOperationEvent(ty, a, u, t))
    \/ \E th \in Threads : SaveCreates(th)
    \/ \E th \in Threads : SaveAppends(th)
    \/ \E th \in Threads : SaveSorts(th)

SpecThreads == Init /\ [][NextThreads]_vars

----------------------------------------------------------------------------

(* Concurrent requests on one event loop, with the reference store *)

\* an entry of the ready queue: the route coroutine of a request, one of its
\* four sub-tasks, or its wake-up once the sub-tasks are done
Step(c, kind, code) == [slot |-> c, kind |-> kind, code |-> code]

Queued(c) == \E i \in 1..Len(ready) : ready[i].slot = c

QueuedRoutes == Cardinality({i \in 1..Len(ready) : ready[i].kind = "route"})

\* variant: the step of a new request is put in front of the queue
RequestArrives_front(c) ==
    /\ Free(c)
    /\ ~Queued(c)
    /\ TotalOps(storage) + QueuedRoutes < MaxCallOps
    /\ ready' = <<Step(c, "route", 0)>> \o ready
    /\ UNCHANGED <<storage, saved, last_operation, alerts, query, result, repeated,
                   solo, calls, failed, http, writers>>

\* a request is ready to enter its route: its step is appended to the queue
RequestArrives(c) ==
    /\ Free(c)
    /\ ~Queued(c)
    /\ TotalOps(storage) + QueuedRoutes < MaxCallOps
    /\ ready' = Append(ready, Step(c, "route", 0))
    /\ UNCHANGED <<storage, saved, last_operation, alerts, query, result, repeated,
                   solo, calls, failed, http, writers>>

\* the route runs up to the suspension in the TaskGroup: save_operation does
\* not suspend, the operation is stored and the four sub-tasks are appended
\* to the queue in the order in which they are created
RouteRuns(c, type, user_id, amount, t) ==
    /\ ready # <<>>
    /\ Head(ready) = Step(c, "route", 0)
    /\ CallSaves(c, type, user_id, amount, t)
    /\ ready' = Tail(ready) \o [i \in 1..Len(AlertCodes) |-> Step(c, "task", AlertCodes[i])]

\* a sub-task runs: its read does not suspend, so it finishes in this step;
\* the last one to finish wakes the call
ReadRuns(c, code) ==
    /\ ready # <<>>
    /\ Head(ready) = Step(c, "task", code)
    /\ TaskRuns(c, code)
    /\ ready' = IF \A k \in Codes \ {code} : calls[c].tasks[k].status # "pending"
                THEN Append(Tail(ready), Step(c, "join", 0))
                ELSE Tail(ready)

\* the call leaves the TaskGroup and returns
JoinRuns(c) ==
    /\ ready # <<>>
    /\ Head(ready) = Step(c, "join", 0)
    /\ CallJoins(c)
    /\ ready' = Tail(ready)

NextLoop ==
    \/ \E c \in Slots : RequestArrives(c)
    \/ \E c \in Slots, ty \in OpTypes, u \in Callers,
          a \in SharedDepositAmounts, t \in SharedTimes : RouteRuns(c, ty, u, a, t)
    \/ \E c \in Slots, k \in Codes : ReadRuns(c, k)
    \/ \E c \in Slots : JoinRuns(c)

SpecLoop == Init /\ [][NextLoop]_vars

----------------------------------------------------------------------------

(* HTTP entry point: POST /event/ *)

\* amounts as they are written in a request body
ValidAmountTexts == {<<"1", "0", "0", ".", "5">>}

RequestTimes == {10}

ValidBodies ==
    {Body(Fields, String(ty), String(a), Number(u), Number(t)) :
        ty \in OpTypes, a \in ValidAmountTexts, u \in Users, t \in RequestTimes}

\* a valid body with one fault: a type outside the literals, an amount that
\* is a JSON number, negative, zero, of three places or no number at all, a
\* user_id or t that is negative or zero, a missing key, two missing keys
FaultyBodies ==
    LET ty == String("deposit")
        a == String(<<"1", "0", "0", ".", "0", "1">>)
        u == Number(1)
        t == Number(10)
    IN  {Body(Fields, String("invalid_type"), a, u, t)}
        \cup {Body(Fields, ty, bad, u, t) :
                 bad \in {Number(<<"1", "0", "0">>),
                          String(<<"-", "1", "0", "0", ".", "0", "0">>),
                          String(<<"0", ".", "0", "0">>),
                          String(<<"1", "0", "0", ".", "0", "0", "1">>),
                          String(<<"a", "b", "c">>)}}
        \cup {Body(Fields, ty, a, Number(bad), t) : bad \in {0 - 1, 0}}
        \cup {Body(Fields, ty, a, u, Number(bad)) : bad \in {0 - 10, 0}}
        \cup {Body(Fields \ {f}, ty, a, u, t) : f \in Fields}
        \cup {Body(Fields \ {"user_id", "t"}, ty, a, u, t)}

Bodies == ValidBodies \cup FaultyBodies

\* what the engine behind BalanceServiceInterface can raise
EngineErrors == {"OperationError", "RuntimeError"}

Exchange(body, engine_calls, raised, response) ==
    [request |-> body, engine_calls |-> engine_calls, raised |-> raised,
     response |-> response]

\* variant: every valid request is handed to deposit
ingest_event_always_deposit(body) ==
    LET event == EventRequest(body)
    IN  IF ~event.valid
        THEN /\ http' = Exchange(body, <<>>, NoException, ValidationErrorResponse)
             /\ UNCHANGED <<storage, saved, last_operation, alerts, query, result,
                            repeated, solo, calls, failed, ready, writers>>
        ELSE /\ TotalOps(storage) < MaxRequests
             /\ deposit(event.user_id, event.amount, event.t)
             /\ http' = Exchange(body,
                                 <<EngineCall("deposit", event.user_id, event.amount, event.t)>>,
                                 NoException,
                                 Response(200, EventResponse(alerts', event.user_id)))

\* POST /event/ answered without a failure of the store: the body is
\* validated, the engine method named by type is awaited and its codes are
\* returned.  The engine constructs its operation first (line 29 / 52 of the
\* service) and raises OperationError when the constructor rejects it.
ingest_event(body) ==
    LET event == EventRequest(body)
        op == BalanceOperationEvent(event.type, event.amount, event.user_id, event.t)
        call == EngineCall(event.type, event.user_id, event.amount, event.t)
    IN  IF ~event.valid
        THEN /\ http' = Exchange(body, <<>>, NoException, ValidationErrorResponse)
             /\ UNCHANGED <<storage, saved, last_operation, alerts, query, result,
                            repeated, solo, calls, failed, ready, writers>>
        ELSE IF event.type \notin {"deposit", "withdraw"}
        THEN /\ http' = Exchange(body, <<>>, NoException,
                                 HTTPException(500, "Unsupported operation type"))
             /\ UNCHANGED <<storage, saved, last_operation, alerts, query, result,
                            repeated, solo, calls, failed, ready, writers>>
        ELSE IF ~ValidOperation(op)
        THEN /\ http' = Exchange(body, <<call>>, OperationError(FailureMessage(event.type)),
                                 add_exception_middleware(
                                     OperationError(FailureMessage(event.type))))
             /\ UNCHANGED <<storage, saved, last_operation, alerts, query, result,
                            repeated, solo, calls, failed, ready, writers>>
        ELSE /\ TotalOps(storage) < MaxRequests
             /\ IF event.type = "deposit"
                THEN deposit(event.user_id, event.amount, event.t)
                ELSE withdraw(event.user_id, event.amount, event.t)
             /\ http' = Exchange(body, <<call>>, NoException,
                                 Response(200, EventResponse(alerts', event.user_id)))

\* POST /event/ with a valid body while the engine fails: the store raises
\* in save_operation (nothing is stored) or in a read (the operation is
\* stored) and the engine raises OperationError, or the engine raises some
\* other exception; the exception reaches the catch-all middleware
ingest_event_raises(body, error, stored) ==
    LET event == EventRequest(body)
        op == BalanceOperationEvent(event.type, event.amount, event.user_id, event.t)
        call == EngineCall(event.type, event.user_id, event.amount, event.t)
        exception == IF error = "OperationError"
                     THEN OperationError(FailureMessage(event.type))
                     ELSE RuntimeError("unexpected")
    IN  /\ event.valid
        /\ stored => TotalOps(storage) < MaxRequests
        /\ storage' = IF stored THEN save_operation(storage, op) ELSE storage
        /\ saved' = IF stored THEN saved \cup {op} ELSE saved
        /\ solo' = IF stored THEN [solo EXCEPT ![op.user_id] = save_operation(@, op)]
                   ELSE solo
        /\ failed' = IF stored THEN failed \cup {op} ELSE failed
        /\ http' = Exchange(body, <<call>>, exception, add_exception_middleware(exception))
        /\ UNCHANGED <<last_operation, alerts, query, result, repeated, calls, ready, writers>>

NextHttp ==
    \/ \E body \in Bodies : ingest_event(body)
    \/ \E body \in ValidBodies, error \in EngineErrors, stored \in BOOLEAN :
          ingest_event_raises(body, error, stored)

SpecHttp == Init /\ [][NextHttp]_vars

----------------------------------------------------------------------------

(* The handler called with an event whose type was not validated *)

\* the test's subclass of EventRequest with `type: str`: every string is
\* accepted as type, the other fields are validated as in EventRequest
CustomEventRequest(body) ==
    LET d == Decimal(body.amount.v)
    IN  IF /\ body.present = Fields
           /\ body.type.json = "string"
           /\ is_string(body.amount)
           /\ d.valid /\ d.places <= 2 /\ ~d.negative /\ d.unscaled > 0
           /\ body.user_id.json = "number" /\ body.user_id.v > 0
           /\ body.t.json = "number" /\ body.t.v > 0
        THEN [valid |-> TRUE, type |-> body.type.v, amount |-> Cents(d),
              user_id |-> body.user_id.v, t |-> body.t.v]
        ELSE InvalidRequest

UnsupportedTypes == {"invalid_type", "transfer"}

CustomBodies ==
    {Body(Fields, String(ty), String(a), Number(u), Number(t)) :
        ty \in OpTypes \cup UnsupportedTypes, a \in ValidAmountTexts,
        u \in Users, t \in RequestTimes}

\* variant: the default case hands the event to deposit
ingest_event_of_default_deposit(body) ==
    LET event == CustomEventRequest(body)
        method == IF event.type = "withdraw" THEN "withdraw" ELSE "deposit"
    IN  /\ event.valid
        /\ TotalOps(storage) < MaxRequests
        /\ IF method = "deposit"
           THEN deposit(event.user_id, event.amount, event.t)
           ELSE withdraw(event.user_id, event.amount, event.t)
        /\ http' = Exchange(body,
                            <<EngineCall(method, event.user_id, event.amount, event.t)>>,
                            NoException,
                            Response(200, EventResponse(alerts', event.user_id)))

\* ingest_event awaited with an event object (lines 52-63): the match
\* statement on event.type with its default case
ingest_event_of(body) ==
    LET event == CustomEventRequest(body)
        call == EngineCall(event.type, event.user_id, event.amount, event.t)
    IN  /\ event.valid
        /\ IF event.type = "deposit"
           THEN /\ TotalOps(storage) < MaxRequests
                /\ deposit(event.user_id, event.amount, event.t)
                /\ http' = Exchange(body, <<call>>, NoException,
                                    Response(200, EventResponse(alerts', event.user_id)))
           ELSE IF event.type = "withdraw"
           THEN /\ TotalOps(storage) < MaxRequests
                /\ withdraw(event.user_id, event.amount, event.t)
                /\ http' = Exchange(body, <<call>>, NoException,
                                    Response(200, EventResponse(alerts', event.user_id)))
           ELSE /\ http' = Exchange(body, <<>>, NoException,
                                    HTTPException(500, "Unsupported operation type"))
                /\ UNCHANGED <<storage, saved, last_operation, alerts, query, result,
                               repeated, solo, calls, failed, ready, writers>>

NextHandler == \E body \in CustomBodies : ingest_event_of(body)

SpecHandler == Init /\ [][NextHandler]_vars

----------------------------------------------------------------------------

(* Vocabulary of the properties *)

Called == last_operation # NoOperation

\* the history of the user of the last call, as stored after the call
History == Get(storage, last_operation.user_id)

Fired(code) == \E i \in 1..Len(alerts) : alerts[i] = code

Deposits(h) == {i \in 1..Len(h) : h[i].type = "deposit"}

Withdrawals(h) == {i \in 1..Len(h) : h[i].type = "withdraw"}

\* i < j < k are the positions of the three most recent deposits of h
LastThreeDeposits(h, i, j, k) ==
    /\ {i, j, k} \subseteq Deposits(h)
    /\ i < j /\ j < k
    /\ \A m \in Deposits(h) : m <= i \/ m = j \/ m = k

Growing(h, i, j, k) == h[i].amount < h[j].amount /\ h[j].amount < h[k].amount

\* sum of the deposits of h whose t lies in the closed interval [lo, hi]
RECURSIVE WindowSum(_, _, _)
WindowSum(h, lo, hi) ==
    IF h = <<>> THEN 0
    ELSE (IF h[1].type = "deposit" /\ lo <= h[1].t /\ h[1].t <= hi THEN h[1].amount ELSE 0)
         + WindowSum(SubSeq(h, 2, Len(h)), lo, hi)

\* h without its i-th element
Remove(h, i) == SubSeq(h, 1, i - 1) \o SubSeq(h, i + 1, Len(h))

Ascending(list) == \A i \in 1..Len(list) - 1 : list[i].t <= list[i + 1].t

----------------------------------------------------------------------------
(* Alert rules *)

\* C1: a call returns 1100 iff the last element of the user's post-insert
\* history is a withdrawal of strictly more than 100.00; that element need
\* not be the operation just ingested.
C1_HighWithdrawIffLastIsBigWithdrawal ==
    Called =>
        LET h == History
        IN  Fired(1100) <=>
                (h[Len(h)].type = "withdraw" /\ h[Len(h)].amount > Money(100))

\* C1 witness: 1100 is returned by a deposit call ingested with an earlier t
\* than a stored withdrawal of more than 100.00.
C1_Witness ==
    /\ Called
    /\ Fired(1100)
    /\ last_operation.type = "deposit"
    /\ History[Len(History)].t > last_operation.t

\* C2: a call returns 30 iff the post-insert history has at least 3
\* operations and its 3 last operations, of any type, are all withdrawals.
C2_ConsecutiveWithdrawsIffLastThree ==
    Called =>
        LET h == History
        IN  Fired(30) <=>
                (Len(h) >= 3 /\ \A i \in (Len(h) - 2)..Len(h) : h[i].type = "withdraw")

\* C2 witness: 30 is returned for a history of four operations that starts
\* with a deposit.
C2_Witness ==
    /\ Called
    /\ Fired(30)
    /\ Len(History) = 4
    /\ History[1].type = "deposit"

\* C3: a call returns 300 iff the post-insert history holds at least 3
\* deposits and the amounts of the 3 last deposits grow strictly.
C3_GrowingDepositsIffLastThreeDeposits ==
    Called =>
        LET h == History
        IN  Fired(300) <=>
                \E i, j, k \in 1..Len(h) :
                    LastThreeDeposits(h, i, j, k) /\ Growing(h, i, j, k)

\* C3 witness: 300 is returned while an older, fourth deposit breaks the
\* growth further back in the history.
C3_Witness ==
    /\ Called
    /\ Fired(300)
    /\ Cardinality(Deposits(History)) = 4
    /\ \E m, i \in Deposits(History) : m < i /\ History[m].amount >= History[i].amount

\* C4: a call with timestamp T returns 123 iff the deposits with t in the
\* closed interval [T - 30, T] sum to at least 200.00; deposits later than T
\* are not counted.
C4_WindowIsClosedInterval ==
    Called =>
        LET T == last_operation.t
        IN  Fired(123) <=> (WindowSum(History, T - 30, T) >= Money(200))

\* C5: when operations arrive in non-decreasing t order (so that the call's
\* T is the largest stored t), 123 is returned iff the deposits from T - 30
\* inclusive sum to at least 200.00: a deposit at exactly T - 30 counts and
\* one at T - 31 or earlier does not.
C5_LowerBoundInclusive ==
    (Called /\ \A i \in 1..Len(History) : History[i].t <= last_operation.t) =>
        LET T == last_operation.t
        IN  Fired(123) <=> (WindowSum(History, T - 30, T) >= Money(200))

\* C5 witness: an in-order call returns 123 only thanks to a deposit made
\* exactly 30 seconds before it.
C5_Witness ==
    /\ Called
    /\ \A i \in 1..Len(History) : History[i].t <= last_operation.t
    /\ Fired(123)
    /\ \E i \in Deposits(History) : History[i].t = last_operation.t - 30
    /\ WindowSum(History, last_operation.t - 29, last_operation.t) < Money(200)

\* C6: rule 300 depends on the deposit subsequence alone: the answer of the
\* call equals the answer of the rule on the history with any one withdrawal
\* removed and on the history with every withdrawal removed.
C6_GrowingDepositsIgnoreWithdrawals ==
    Called =>
        LET u == last_operation.user_id
            h == History
            OnlyDeposits == SelectSeq(h, LAMBDA x : x.type = "deposit")
        IN  /\ Fired(300) <=>
                  consecutive_growing_deposits_check(Put(storage, u, OnlyDeposits), u)
            /\ \A i \in Withdrawals(h) :
                  Fired(300) <=>
                      consecutive_growing_deposits_check(Put(storage, u, Remove(h, i)), u)

\* C6 witness: the third growing deposit is ingested right after a
\* withdrawal that separates it from the second, and the call returns 300.
C6_Witness ==
    /\ Called
    /\ last_operation.type = "deposit"
    /\ Len(History) = 4
    /\ History[4] = last_operation
    /\ History[3].type = "withdraw"
    /\ History[1].type = "deposit" /\ History[2].type = "deposit"
    /\ Fired(300)

\* C7 as stated: both 30 and 300 are broken by an interleaved operation of
\* the other kind, so when 300 is returned no withdrawal lies between the
\* three growing deposits.
C7_BothRulesBrokenByOtherKind ==
    Called =>
        LET h == History
        IN  /\ Fired(30) => \A i \in (Len(h) - 2)..Len(h) : h[i].type = "withdraw"
            /\ Fired(300) =>
                  \A i, j, k \in 1..Len(h) :
                      LastThreeDeposits(h, i, j, k) => (j = i + 1 /\ k = j + 1)

\* C7 amended: 30 is broken by a deposit among the 3 last operations; 300
\* looks at the 3 last deposits only and is returned whenever they grow
\* strictly, whatever withdrawals lie between or after them.
C7_WithdrawStreakBrokenDepositStreakNot ==
    Called =>
        LET h == History
        IN  /\ (\E i \in 1..Len(h) : i >= Len(h) - 2 /\ h[i].type = "deposit")
                  => ~Fired(30)
            /\ \A i, j, k \in 1..Len(h) :
                  (LastThreeDeposits(h, i, j, k) /\ Growing(h, i, j, k)) => Fired(300)

\* C7 witness: 300 is returned although a withdrawal lies between the first
\* and the second deposit of the growing streak.
C7_Witness ==
    /\ Called
    /\ Fired(300)
    /\ \E i, j, k \in 1..Len(History) :
          /\ LastThreeDeposits(History, i, j, k)
          /\ j > i + 1
          /\ History[i + 1].type = "withdraw"

\* C8: the returned list holds exactly the codes whose predicate is true on
\* the post-insert history: only codes of the four rules, none twice.
C8_AlertsAreExactlyTheTruePredicates ==
    Called =>
        /\ \A i \in 1..Len(alerts) : alerts[i] \in {1100, 30, 300, 123}
        /\ \A i, j \in 1..Len(alerts) : alerts[i] = alerts[j] => i = j
        /\ \A c \in {1100, 30, 300, 123} :
              Fired(c) <=> TaskResult(storage, last_operation, c)
        /\ (\A c \in {1100, 30, 300, 123} : ~TaskResult(storage, last_operation, c))
              => alerts = <<>>

\* C8 witness: a call returns two codes at once.
C8_Witness ==
    /\ Called
    /\ Len(alerts) = 2
    /\ Fired(300) /\ Fired(123)

----------------------------------------------------------------------------
(* Operation store *)

\* C9: every operation ever saved is returned by the query for its own
\* user_id from its own t, with no type filter.
C9_SavedOperationNeverLost ==
    \A op \in saved :
        LET since == get_last_operations_by_time(storage, op.user_id, op.t, None)
        IN  \E i \in 1..Len(since) : since[i] = op

\* C9 witness: an operation is still stored after two more saves for its
\* user, one earlier and one later in t, and a query.
C9_Witness ==
    /\ query.kind = "by_time"
    /\ \E u \in DOMAIN storage :
          /\ Len(storage[u]) = 3
          /\ storage[u][2] \in saved
          /\ storage[u][1].t < storage[u][2].t
          /\ storage[u][2].t < storage[u][3].t

\* C10: for every n >= 0 the last-n query returns at most n items, at most
\* as many as the filtered history holds, in ascending order of t.
C10_LastNAtMostN ==
    query.kind = "last_n" =>
        LET all == Get(storage, query.user_id)
            matching == IF query.op_type = None THEN all
                        ELSE SelectSeq(all, LAMBDA x : x.type = query.op_type)
        IN  /\ Len(result) <= query.arg
            /\ Len(result) <= Len(matching)
            /\ Ascending(result)

\* the positions of list whose operation matches the type filter
Matching(list, op_type) ==
    {i \in 1..Len(list) : op_type = None \/ list[i].type = op_type}

\* the r-th smallest element of a set of positions
Nth(positions, r) ==
    CHOOSE i \in positions : Cardinality({m \in positions : m <= i}) = r

\* list restricted to a set of its positions, order kept
Restrict(list, positions) ==
    [j \in 1..Cardinality(positions) |-> list[Nth(positions, j)]]

\* C11: for n >= 1 the last-n query returns the last min(n, k) of the k
\* stored operations that match the type filter: the filter is applied before
\* the tail is taken, and all k come back when k < n.
C11_LastNIsTailOfFiltered ==
    (query.kind = "last_n" /\ query.arg >= 1) =>
        LET all == Get(storage, query.user_id)
            idx == Matching(all, query.op_type)
            k == Cardinality(idx)
            m == IF query.arg < k THEN query.arg ELSE k
        IN  /\ Len(result) = m
            /\ \A j \in 1..m : result[j] = all[Nth(idx, k - m + j)]

\* C11 witness: the last deposit is returned although a withdrawal is the
\* last operation of the history.
C11_Witness ==
    /\ query.kind = "last_n" /\ query.arg = 1 /\ query.op_type = "deposit"
    /\ LET all == Get(storage, query.user_id)
       IN  /\ Len(all) = 3
           /\ all[3].type = "withdraw"
           /\ all[1].type = "deposit"
           /\ result = <<all[1]>>

\* C12: the since query returns exactly the stored operations of the user
\* with t >= min_t that match the type filter, each once, in stored order,
\* ascending by t.
C12_SinceIsExactlyTheLaterOperations ==
    query.kind = "by_time" =>
        LET all == Get(storage, query.user_id)
            idx == {i \in Matching(all, query.op_type) : all[i].t >= query.arg}
        IN  /\ result = Restrict(all, idx)
            /\ Ascending(result)

\* C12 witness: a filtered since query returns an operation with t = min_t
\* and leaves out an earlier one and one of the other type.
C12_Witness ==
    /\ query.kind = "by_time" /\ query.op_type = "deposit"
    /\ Len(result) = 1 /\ result[1].t = query.arg
    /\ LET all == Get(storage, query.user_id)
       IN  /\ \E i \in 1..Len(all) : all[i].t < query.arg /\ all[i].type = "deposit"
           /\ \E i \in 1..Len(all) : all[i].t >= query.arg /\ all[i].type = "withdraw"

\* the users no operation was ever saved for
NeverSaved == {u \in Users : \A op \in saved : op.user_id # u}

\* C13: for a user that was never saved both queries return the empty list,
\* whatever the other users' histories hold, and each of the four rules is
\* false.
C13_UnknownUserIsEmpty ==
    /\ (query.kind # "none" /\ query.user_id \in NeverSaved) => result = <<>>
    /\ \A u \in NeverSaved :
          /\ \A t \in Times, f \in TypeFilters :
                get_last_operations_by_time(storage, u, t, f) = <<>>
          /\ \A n \in 0..MaxN, f \in TypeFilters :
                get_last_n_operations(storage, u, n, f) = <<>>
          /\ ~high_withdraw_check(storage, u)
          /\ ~consecutive_withdraws_check(storage, u)
          /\ ~consecutive_growing_deposits_check(storage, u)
          /\ \A t \in Times : ~high_deposits_over_short_time_check(storage, u, t)

\* C13 witness: a query for a user never saved returns the empty list while
\* the other user has three stored operations.
C13_Witness ==
    /\ query.kind # "none"
    /\ query.user_id \in NeverSaved
    /\ result = <<>>
    /\ \E u \in DOMAIN storage : Len(storage[u]) = 3

\* C14: a query repeated with the same arguments, with no save in between,
\* returns the same list again.
C14_QueriesAreIdempotent ==
    [][(query.kind # "none" /\ query' = query) => result' = result]_vars

\* C14 witness: a query that returned two operations has just been repeated.
C14_Witness ==
    /\ repeated
    /\ query.kind # "none"
    /\ Len(result) = 2

\* C15: every stored history is in non-decreasing order of t, also after an
\* operation was saved with an earlier t than the stored ones.
C15_HistoriesAreSorted ==
    \A u \in DOMAIN storage : Ascending(storage[u])

\* C15 witness: the operation just ingested has the smallest t and stands
\* first in a history of three.
C15_Witness ==
    /\ Called
    /\ Len(History) = 3
    /\ History[1] = last_operation
    /\ History[1].t < History[2].t
    /\ History[2].t < History[3].t

\* number of occurrences of x in list
Occurrences(list, x) == Cardinality({i \in 1..Len(list) : list[i] = x})

\* every operation the repository can be handed in SpecStore
StoreOperations ==
    {BalanceOperationEvent(ty, a, u, t) :
        ty \in OpTypes, a \in StoreAmounts, u \in Users, t \in Times}

\* C16: a step either leaves every history as it is, or it is the save of
\* one operation: the history of that operation's user grows by exactly 1,
\* as a multiset it is the old history plus the operation, and the other
\* histories are unchanged.
C16_HistoriesAreAppendOnly ==
    [][ \/ \A u \in Users : Get(storage', u) = Get(storage, u)
        \/ \E op \in StoreOperations :
              LET old == Get(storage, op.user_id)
                  new == Get(storage', op.user_id)
              IN  /\ op \in saved'
                  /\ Len(new) = Len(old) + 1
                  /\ \A x \in StoreOperations :
                        Occurrences(new, x) =
                            Occurrences(old, x) + (IF x = op THEN 1 ELSE 0)
                  /\ \A u \in Users \ {op.user_id} :
                        Get(storage', u) = Get(storage, u) ]_vars

\* C16 witness: a history of three holds the same operation twice.
C16_Witness ==
    \E u \in DOMAIN storage :
        /\ Len(storage[u]) = 3
        /\ \E i, j \in 1..3 : i < j /\ storage[u][i] = storage[u][j]

\* C17: the stored history of every user and the codes returned to the
\* caller are those of the run in which only that user's operations are
\* ingested: operations of other users change neither.
C17_CrossUserIsolation ==
    /\ \A u \in Users : Get(storage, u) = Get(solo[u], u)
    /\ Called => alerts = check_for_alerts(solo[last_operation.user_id], last_operation)

\* C17 witness: a deposit call does not return 123 although the deposits of
\* both users inside its window sum to 200.00 or more.
C17_Witness ==
    /\ Called
    /\ last_operation.type = "deposit"
    /\ ~Fired(123)
    /\ \E other \in Users \ {last_operation.user_id} :
          WindowSum(History \o Get(storage, other),
                    last_operation.t - 30, last_operation.t) >= Money(200)

----------------------------------------------------------------------------
(* One call, step by step *)

Contains(list, x) == \E i \in 1..Len(list) : list[i] = x

\* C18: within one call the save comes before every predicate read: as soon
\* as a sub-task exists the operation is stored, and every read that
\* completed observed a history that contains it.
C18_SaveHappensBeforeReads ==
    \A c \in Slots, k \in Codes :
        LET call == calls[c]
        IN  /\ call.tasks[k].status # "none" =>
                  (call.save_result = "ok"
                   /\ Contains(Get(storage, call.op.user_id), call.op))
            /\ call.tasks[k].status = "done" => Contains(call.tasks[k].seen, call.op)

\* C18 witness: a call returned after its four reads each observed the
\* history of two operations that holds its own.
C18_Witness ==
    \E c \in Slots :
        /\ calls[c].pc = "returned"
        /\ \A k \in Codes :
              /\ calls[c].tasks[k].status = "done"
              /\ Len(calls[c].tasks[k].seen) = 2
              /\ Contains(calls[c].tasks[k].seen, calls[c].op)

\* C19: a call that has left the task group with a failed sub-task returned
\* no list, not even the codes of the rules that evaluated true, and raised
\* exactly one OperationError.
C19_EvaluationIsAllOrNothing ==
    \A c \in Slots :
        (calls[c].pc # "joining"
         /\ \E k \in Codes : calls[c].tasks[k].status = "raised") =>
            /\ calls[c].pc = "raised"
            /\ calls[c].returned = <<>>
            /\ Len(calls[c].errors) = 1

\* C19 witness: a call raised although one of its rules had evaluated true
\* before another sub-task failed.
C19_Witness ==
    \E c \in Slots :
        /\ calls[c].pc = "raised"
        /\ \E k \in Codes : calls[c].tasks[k].status = "done" /\ calls[c].tasks[k].value
        /\ \E k \in Codes : calls[c].tasks[k].status = "raised"

\* C20: when the save fails, deposit raises OperationError 'The deposit
\* operation failed' and withdraw 'The withdraw operation failed'; save was
\* attempted once, no sub-task was created and no list is returned.
C20_FailedSaveRaisesOperationError ==
    \A c \in Slots :
        calls[c].save_result = "raised" =>
            /\ calls[c].pc = "raised"
            /\ calls[c].op.type = "deposit" =>
                  calls[c].errors = <<"The deposit operation failed">>
            /\ calls[c].op.type = "withdraw" =>
                  calls[c].errors = <<"The withdraw operation failed">>
            /\ calls[c].save_calls = 1
            /\ \A k \in Codes : calls[c].tasks[k].status = "none"
            /\ calls[c].returned = <<>>

\* C20 witness: the save of a withdraw call failed after an earlier call had
\* stored an operation.
C20_Witness ==
    \E c \in Slots :
        /\ calls[c].save_result = "raised"
        /\ calls[c].op.type = "withdraw"
        /\ calls[c].errors = <<"The withdraw operation failed">>
        /\ TotalOps(storage) >= 1

\* C21: there is no rollback: an operation saved by a call that then raised
\* OperationError or was abandoned stays in the history of its user, and
\* every read a later call completed for that user observed it.
C21_NoRollbackAfterFailedEvaluation ==
    \A op \in failed :
        /\ Contains(Get(storage, op.user_id), op)
        /\ \A c \in Slots, k \in Codes :
              (calls[c].tasks[k].status = "done" /\ calls[c].op.user_id = op.user_id)
                  => Contains(calls[c].tasks[k].seen, op)

\* C21 witness: a deposit call returned 123 only thanks to the deposit of an
\* earlier call whose evaluation failed or was given up.
C21_Witness ==
    \E c \in Slots :
        /\ calls[c].pc = "returned"
        /\ calls[c].returned = <<(<<123>>)>>
        /\ calls[c].op.amount < Money(200)
        /\ \E op \in failed :
              /\ op # calls[c].op
              /\ op.type = "deposit"
              /\ Contains(calls[c].tasks[123].seen, op)

----------------------------------------------------------------------------
(* HTTP entry point *)

\* the amount every valid request body of SpecHttp writes: "100.5"
RequestAmount == Money(100) + 50

\* C22: a valid request of type deposit makes exactly one engine call,
\* deposit(user_id, amount, t), and none of withdraw; one of type withdraw
\* makes exactly one call of withdraw with the same arguments and none of
\* deposit; the 200 response carries the codes the engine returned and the
\* user_id of the request.
C22_RouteDispatchesOnType ==
    http.request \in ValidBodies =>
        LET body == http.request
        IN  /\ http.engine_calls =
                  <<EngineCall(body.type.v, body.user_id.v, RequestAmount, body.t.v)>>
            /\ http.raised = NoException =>
                  /\ http.response.status_code = 200
                  /\ http.response.body.alert_codes = alerts
                  /\ http.response.body.user_id = body.user_id.v
                  /\ last_operation =
                        BalanceOperationEvent(body.type.v, RequestAmount,
                                              body.user_id.v, body.t.v)

\* C22 witness: a withdraw request of user 2 was answered with the code 1100
\* that the engine's withdraw returned.
C22_Witness ==
    /\ http.request \in ValidBodies
    /\ http.request.type.v = "withdraw"
    /\ http.request.user_id.v = 2
    /\ http.engine_calls = <<EngineCall("withdraw", 2, RequestAmount, 10)>>
    /\ http.response.status_code = 200
    /\ http.response.body.alert_codes = <<1100>>
    /\ http.response.body.user_id = 2

\* the faults of a request body: a missing key, a type outside {deposit,
\* withdraw}, an amount that is not a string, an amount <= 0, a user_id <= 0,
\* a t <= 0
Malformed(body) ==
    \/ body.present # Fields
    \/ body.type.v \notin {"deposit", "withdraw"}
    \/ body.amount.json # "string"
    \/ LET d == Decimal(body.amount.v) IN d.valid /\ (d.negative \/ d.unscaled = 0)
    \/ body.user_id.v <= 0
    \/ body.t.v <= 0

\* C23: a request with one of these faults is answered with 422 before the
\* engine is reached: no engine call is made and the store is as it was.
C23_InvalidRequestIsRejected ==
    [][Malformed(http'.request) =>
          /\ http'.response.status_code = 422
          /\ http'.engine_calls = <<>>
          /\ http'.raised = NoException
          /\ storage' = storage
          /\ saved' = saved
          /\ last_operation' = last_operation]_vars

\* C23 witness: a request with a negative user_id was answered with 422
\* while three operations are stored.
C23_Witness ==
    /\ http.request.present = Fields
    /\ http.request.user_id.v < 0
    /\ http.response.status_code = 422
    /\ TotalOps(storage) = 3

\* C24: in every 200 response alert is true iff alert_codes is non-empty.
C24_AlertIffCodes ==
    http.response.status_code = 200 =>
        (http.response.body.alert <=> Len(http.response.body.alert_codes) >= 1)

\* C24 witness: a 200 response with alert true and exactly one code.
C24_Witness ==
    /\ http.response.status_code = 200
    /\ http.response.body.alert
    /\ Len(http.response.body.alert_codes) = 1

\* C25: every stored operation has amount > 0, t > 0, user_id > 0 and type
\* deposit or withdraw, and lies in the history of its own user_id, whatever
\* valid and invalid requests were made.
C25_StoredOperationsAreValid ==
    \A u \in DOMAIN storage :
        \A i \in 1..Len(storage[u]) :
            /\ storage[u][i].amount > 0
            /\ storage[u][i].t > 0
            /\ storage[u][i].user_id > 0
            /\ storage[u][i].type \in {"deposit", "withdraw"}
            /\ storage[u][i].user_id = u

\* C25 witness: both users have stored operations and the last request, one
\* with a zero amount, was rejected.
C25_Witness ==
    /\ http.response.status_code = 422
    /\ http.request.amount = String(<<"0", ".", "0", "0">>)
    /\ \A u \in Users : Len(Get(storage, u)) >= 1

\* C26: when the engine raises OperationError, or anything else, the answer
\* is 500 with the body {"error": "Internal server error"} and nothing more:
\* neither the message nor the class of the exception is in it.
C26_FailuresAreOpaque ==
    http.raised # NoException =>
        http.response = Response(500, [error |-> "Internal server error"])

\* C26 witness: the engine raised OperationError after it had stored the
\* operation, and the answer is the opaque 500.
C26_Witness ==
    /\ http.raised = OperationError("The withdraw operation failed")
    /\ http.response.status_code = 500
    /\ \E op \in failed : Contains(Get(storage, op.user_id), op)

----------------------------------------------------------------------------
(* Concurrent calls *)

\* every operation the calls of SpecLoop can save
LoopOperations ==
    {BalanceOperationEvent(ty, a, u, t) :
        ty \in OpTypes, a \in SharedDepositAmounts, u \in Callers, t \in SharedTimes}

\* C27 as stated: every read of a call observes the history as it was right
\* after the call's own save, and nothing that other calls saved later.
C27_ReadsSeeHistoryAtOwnSave ==
    \A c \in Slots, k \in Codes :
        calls[c].tasks[k].status = "done" => calls[c].tasks[k].seen = calls[c].snapshot

\* C27 amended: the four reads of one call observe one and the same history;
\* it holds everything the history held right after the call's own save, the
\* call's operation included, and it may hold more: the operations other
\* calls saved between this call's save and its reads.
C27_ReadsAgreeAndHoldOwnSave ==
    \A c \in Slots :
        /\ \A k1, k2 \in Codes :
              (calls[c].tasks[k1].status = "done" /\ calls[c].tasks[k2].status = "done")
                  => calls[c].tasks[k1].seen = calls[c].tasks[k2].seen
        /\ \A k \in Codes :
              calls[c].tasks[k].status = "done" =>
                  /\ Contains(calls[c].tasks[k].seen, calls[c].op)
                  /\ \A x \in LoopOperations :
                        Occurrences(calls[c].tasks[k].seen, x)
                            >= Occurrences(calls[c].snapshot, x)

\* C27 witness: a call returned whose four reads observed an operation that
\* another call saved after this call's own save.
C27_Witness ==
    \E c \in Slots :
        /\ calls[c].pc = "returned"
        /\ Len(calls[c].snapshot) = 1
        /\ \A k \in Codes :
              /\ calls[c].tasks[k].status = "done"
              /\ Len(calls[c].tasks[k].seen) = 2

\* C28: with the statements of concurrent saves interleaved the store loses
\* updates, and it does so in exactly one way: a history holds the operations
\* appended to it minus those that were in it when a racing save replaced the
\* list with a new empty one (line 37 after the other save's lookup).
C28_LostUpdatesComeFromRacingCreate ==
    \A u \in Users :
        Len(Get(storage, u)) = writers.appended[u] - writers.discarded[u]

\* C28 witness: two saves for the same user have both returned, no save is
\* in progress, and the history lacks the operation of one of them.
C28_Witness ==
    /\ \A th \in Threads : writers.thread[th].pc = "idle"
    /\ \E op \in writers.completed :
          /\ ~Contains(Get(storage, op.user_id), op)
          /\ writers.appended[op.user_id] = 2
          /\ Len(Get(storage, op.user_id)) = 1

\* C29: when calls interleave only where they suspend, no update is lost:
\* the step in which a call saves adds exactly its operation to the history
\* of its user, which stays sorted by t, and no other step changes any
\* history; so the history holds every saved operation, each as often as it
\* was saved.
C29_NoLostUpdateWhenCooperative ==
    [][ /\ \A c \in Slots :
              (calls[c].pc # "joining" /\ calls'[c].pc = "joining") =>
                  LET op == calls'[c].op
                      old == Get(storage, op.user_id)
                      new == Get(storage', op.user_id)
                  IN  /\ Len(new) = Len(old) + 1
                      /\ \A x \in LoopOperations :
                            Occurrences(new, x) =
                                Occurrences(old, x) + (IF x = op THEN 1 ELSE 0)
                      /\ Ascending(new)
        /\ (\A c \in Slots : ~(calls[c].pc # "joining" /\ calls'[c].pc = "joining"))
              => storage' = storage ]_vars

\* C29 witness: a second call saved an operation with an earlier t while the
\* reads of the first call were still queued; both operations are stored, in
\* order of t.
C29_Witness ==
    \E c, d \in Slots :
        /\ c # d
        /\ calls[c].pc = "joining" /\ calls[d].pc = "joining"
        /\ \A k \in Codes : calls[c].tasks[k].status = "pending"
        /\ \A k \in Codes : calls[d].tasks[k].status = "pending"
        /\ calls[d].op.t < calls[c].op.t
        /\ Len(calls[c].snapshot) = 1
        /\ Get(storage, calls[c].op.user_id) = <<calls[d].op, calls[c].op>>

\* C30: a call returns its list only when all of its four sub-tasks have
\* completed, and a call that has saved and waits for its sub-tasks always
\* ends, with a list or with OperationError, as long as every read of the
\* store ends and the caller waits.
C30_FanInAndTermination ==
    /\ [](\A c \in SerialSlots :
             /\ calls[c].pc = "returned" =>
                   /\ \A k \in Codes : calls[c].tasks[k].status = "done"
                   /\ Len(calls[c].returned) = 1
                   /\ calls[c].errors = <<>>
             /\ calls[c].pc = "raised" =>
                   /\ calls[c].returned = <<>>
                   /\ calls[c].errors = <<FailureMessage(calls[c].op.type)>>)
    /\ \A c \in SerialSlots :
          (calls[c].pc = "joining") ~> (calls[c].pc \in {"returned", "raised"})

\* C30 witness: the second call of a run returned the codes 1100 after its
\* four sub-tasks were done.
C30_Witness ==
    \E c \in SerialSlots :
        /\ calls[c].pc = "returned"
        /\ \A k \in Codes : calls[c].tasks[k].status = "done"
        /\ calls[c].returned = <<(<<1100>>)>>
        /\ TotalOps(storage) = 2

----------------------------------------------------------------------------
(* Calls made on the repository *)

\* the reads a call has issued so far
Reads(c) ==
    {calls[c].tasks[k].asked : k \in {j \in Codes : calls[c].tasks[j].asked # NoQuery}}

\* C31: a call that returned its list made one save and four reads for the
\* user of its operation: the last operation (1100), the last 3 operations
\* (30), the last 3 deposits (300) and the deposits since t - 30 (123); no
\* read is issued before the save has stored the operation.
C31_OneSaveThenFourReads ==
    \A c \in Slots :
        /\ calls[c].pc = "returned" =>
              /\ calls[c].save_calls = 1
              /\ Cardinality({k \in Codes : calls[c].tasks[k].asked # NoQuery}) = 4
              /\ calls[c].tasks[1100].asked =
                    [kind |-> "last_n", user_id |-> calls[c].op.user_id,
                     arg |-> 1, op_type |-> None]
              /\ calls[c].tasks[30].asked =
                    [kind |-> "last_n", user_id |-> calls[c].op.user_id,
                     arg |-> 3, op_type |-> None]
              /\ calls[c].tasks[300].asked =
                    [kind |-> "last_n", user_id |-> calls[c].op.user_id,
                     arg |-> 3, op_type |-> "deposit"]
              /\ calls[c].tasks[123].asked =
                    [kind |-> "by_time", user_id |-> calls[c].op.user_id,
                     arg |-> calls[c].op.t - 30, op_type |-> "deposit"]
        /\ Reads(c) # {} =>
              /\ calls[c].save_result = "ok"
              /\ Contains(Get(storage, calls[c].op.user_id), calls[c].op)

\* C31 witness: a call at t = 31 returned after asking for the deposits
\* since 1.
C31_Witness ==
    \E c \in Slots :
        /\ calls[c].pc = "returned"
        /\ calls[c].op.t = 31
        /\ calls[c].tasks[123].asked.arg = 1
        /\ Cardinality(Reads(c)) = 4

\* C32: a step that is a query or a check leaves the history of every user
\* as it was and creates no history for a user who has none; the store
\* changes only in a step that saves an operation.
C32_OnlySaveMutates ==
    [][ /\ query' # NoQuery =>
              /\ storage' = storage
              /\ DOMAIN storage' = DOMAIN storage
        /\ storage' # storage => TotalOps(storage') = TotalOps(storage) + 1
      ]_vars

\* C32 witness: a check that answered True and a query for a user without a
\* history, who still has none while the other user has one.
C32_Witness ==
    /\ alerts # <<>>
    /\ query # NoQuery
    /\ query.user_id \notin DOMAIN storage
    /\ storage # <<>>
    /\ result = <<>>

----------------------------------------------------------------------------
(* Operations with equal timestamps *)

\* the number of operations of a history with a timestamp of at most t
UpTo(list, t) == Cardinality({i \in 1..Len(list) : list[i].t <= t})

\* C33: a call puts its operation behind every stored operation of the user
\* with the same or a smaller t and leaves the stored operations in the
\* order they had, so operations with equal t stay in insertion order; when
\* no stored t is larger, the operation is the last one and the one that
\* get_last_n_operations(user, 1) returns.
C33_EqualTimestampsKeepInsertionOrder ==
    [][ LET op == last_operation'
            old == Get(storage, op.user_id)
            new == Get(storage', op.user_id)
            k == UpTo(old, op.t)
        IN  /\ new = SubSeq(old, 1, k) \o <<op>> \o SubSeq(old, k + 1, Len(old))
            /\ k = Len(old) =>
                  /\ new[Len(new)] = op
                  /\ get_last_n_operations(storage', op.user_id, 1, None) = <<op>>
      ]_vars

\* C33 witness: a withdrawal saved at t = 31 after a deposit at t = 31 and a
\* deposit at t = 32 stands between them, and two operations at t = 31 with
\* different amounts stand in the order of their calls.
C33_Witness ==
    \E u \in Callers :
        LET ops == Get(storage, u)
        IN  /\ Len(ops) = 3
            /\ last_operation = ops[2]
            /\ ops[1].t = 31 /\ ops[2].t = 31 /\ ops[3].t = 32
            /\ ops[1].type = "deposit" /\ ops[2].type = "withdraw"

----------------------------------------------------------------------------
(* Arguments that violate the data model *)

\* C34 (as claimed): a call whose arguments violate the data model (amount,
\* t or user_id not positive) saves nothing and does not end with
\* OperationError.
C34_RejectedArgumentsAreNotWrapped ==
    \A c \in Slots :
        (calls[c].pc = "raised" /\ ~ValidOperation(calls[c].op)) =>
            /\ calls[c].save_calls = 0
            /\ calls[c].op \notin saved
            /\ calls[c].errors # <<FailureMessage(calls[c].op.type)>>

----------------------------------------------------------------------------
(* Unsupported operation type *)

\* C35: when the handler is given an event whose type is neither deposit
\* nor withdraw it raises HTTPException(500, "Unsupported operation type"),
\* awaits neither deposit nor withdraw, and the store is left as it was.
C35_UnsupportedTypeIsServerError ==
    [][ http'.request.type.v \notin {"deposit", "withdraw"} =>
            /\ http'.response = Response(500, [detail |-> "Unsupported operation type"])
            /\ http'.engine_calls = <<>>
            /\ storage' = storage
            /\ saved' = saved
            /\ last_operation' = last_operation
      ]_vars

\* C35 witness: an event of type invalid_type was answered with 500 after
\* an operation had been stored.
C35_Witness ==
    /\ http.request.type.v = "invalid_type"
    /\ http.response.status_code = 500
    /\ http.engine_calls = <<>>
    /\ TotalOps(storage) >= 1

----------------------------------------------------------------------------
(* Calls in timestamp order, and large deposits *)

\* the calls whose save is still on record in a slot
Recorded == {d \in Slots : calls[d].save_result = "ok"}

\* every operation in the store was saved by a call still on record, and
\* each of these calls carried a t not smaller than any t stored before it
EveryCallInOrder ==
    /\ TotalOps(storage) = Cardinality(Recorded)
    /\ \A d \in Recorded :
          \A i \in 1..Len(calls[d].snapshot) : calls[d].snapshot[i].t <= calls[d].op.t

\* what the claim says of a call that returned: judged on its own operation
JudgedOnItself(c) ==
    LET codes == calls[c].returned[1]
        op == calls[c].op
    IN  /\ op.type = "deposit" => ~Contains(codes, 1100) /\ ~Contains(codes, 30)
        /\ op.type = "withdraw" => (Contains(codes, 1100) <=> op.amount > Money(100))

C37_LargeDepositAlwaysRaises123 ==
    (last_operation.type = "deposit" /\ last_operation.amount >= Money(200)) =>
        Contains(alerts, 123)

\* C37 witness: a deposit of 200.00 at t = 1 returned 123 although the
\* user's history already held an operation at t = 32.
C37_Witness ==
    /\ last_operation.type = "deposit"
    /\ last_operation.amount = Money(200)
    /\ last_operation.t = 1
    /\ \E i \in 1..Len(Get(storage, last_operation.user_id)) :
          Get(storage, last_operation.user_id)[i].t = 32
    /\ Contains(alerts, 123)

====
